---- MODULE Spec2Model ----
(***************************************************************************)
(* Model of the mapbox client library (package mapbox).                    *)
(*                                                                         *)
(* One behaviour is one use of the library: a client is constructed        *)
(* (NewClient), then one operation is called on it (UpsertTileset,         *)
(* UpdateTilesetRecipe, PublishTileset followed by Poll, or                *)
(* PutTilesetSource).  The remote service and the net/http transport are   *)
(* the environment: every answer they can give is a nondeterministic       *)
(* choice.  Go strings are sequences of one-character strings.             *)
(***************************************************************************)
EXTENDS Naturals, Sequences, FiniteSets

VARIABLES
    mainPc,     \* position of the calling goroutine
    op,         \* operation called on the client ("none" before the call)
    ncArgs,     \* arguments given to NewClient / fields given to client.Validate
    client,     \* the Client value returned by NewClient
    ncErr,      \* the error returned by NewClient / client.Validate
    argTileset, \* tileset argument of the operation as the caller gave it
    tileset,    \* local variable `tileset` of the running operation
    reqs,       \* HTTP requests issued so far, in order
    resps,      \* answers received so far, in order
    bodyRead,   \* a response body has been handed to a JSON decoder
    result,     \* error returned by the operation
    job,        \* PublishTilesetJob returned by PublishTileset
    data,       \* bytes the jsonReader of PutTilesetSource holds
    srcFail,    \* the jsonReader ends with an error instead of io.EOF
    src,        \* bytes of the jsonReader not yet read by io.Copy
    wpc,        \* position of the background writer goroutine of doMultipart
    partOk,     \* partWriter is non-nil
    wrbuf,      \* bytes of the pipe Write in progress not yet taken by a Read
    rclosed,    \* read side of the pipe closed (bodyReader.Close)
    wclosed,    \* write side of the pipe closed (bodyWriter.Close)
    writeErr,   \* captured variable writeErr of doMultipart
    errOnce,    \* errOnce has run its function
    recv,       \* bytes the HTTP side has read from the request body
    httpPc,     \* state of ctxhttp.Do
    mpRet,      \* what doMultipart returned
    crashed     \* the process died of an unrecovered panic

vars == <<mainPc, op, ncArgs, client, ncErr, argTileset, tileset, reqs, resps,
          bodyRead, result, job, data, srcFail, src, wpc, partOk, wrbuf,
          rclosed, wclosed, writeErr, errOnce, recv, httpPc, mpRet, crashed>>

tilesetVars == <<argTileset, tileset, reqs, resps, bodyRead, result, job>>
uploadVars == <<data, srcFail, src, wpc, partOk, wrbuf, rclosed, wclosed,
                writeErr, errOnce, recv, httpPc, mpRet>>
uploadVarsButHttpPc == <<data, srcFail, src, wpc, partOk, wrbuf, rclosed, wclosed,
                         writeErr, errOnce, recv, mpRet>>
clientVars == <<ncArgs, client, ncErr>>

-----------------------------------------------------------------------------
(* Bounds of the model *)

MaxUserLen == 2
MaxIdLen == 3
MaxLen == 3
CopyBuf == 2
ReadBuf == 2

(* HTTP status codes the code compares against *)
StatusOK == 200
StatusNoContent == 204
StatusNotFound == 404

SeqsUpTo(S, n) == UNION {[1..k -> S] : k \in 0..n}

\* a control character: net/url refuses a URL that holds one
CTL == "\n"

Usernames == SeqsUpTo({"a"}, MaxUserLen)
Tokens == {<<>>, <<"t">>}
TilesetIds == SeqsUpTo({"a", ".", CTL}, MaxIdLen)
UploadIds == SeqsUpTo({"a", CTL}, 1)
Bytes == {"x", "y"}
Inputs == SeqsUpTo(Bytes, MaxLen)

-----------------------------------------------------------------------------
(* Error values.  An error is modelled by the sentinel it wraps. *)

NoErr == "nil"
ErrValidation == "validation"
ErrOperation == "upload"
ErrParse == "parse"
ErrUnexpected == "unexpected"
ErrNotFound == "notfound"
\* errors.New(jsonResp.Message + ", errors: " + ...): wraps no sentinel
ServerError == "server"
\* io.ErrClosedPipe, the error of a pipe Write once the read side is closed
ErrClosedPipe == "closedpipe"
\* the error the jsonReader returns
ErrRead == "readerr"
\* the error of http.NewRequest inside doMultipart
ErrNewRequest == "newrequest"

-----------------------------------------------------------------------------
(* Client construction *)

ZeroClient == [username |-> <<>>, accessToken |-> <<>>, httpClient |-> FALSE]

NewClientNoTokenCheck(accessToken, username) ==
    IF Len(username) = 0
    THEN [c |-> ZeroClient, err |-> ErrValidation]
    ELSE [c |-> [username |-> username, accessToken |-> accessToken,
                 httpClient |-> TRUE],
          err |-> NoErr]

NewClient(accessToken, username) ==
    IF Len(username) = 0
    THEN [c |-> ZeroClient, err |-> ErrValidation]
    ELSE IF Len(accessToken) = 0
    THEN [c |-> ZeroClient, err |-> ErrValidation]
    ELSE [c |-> [username |-> username, accessToken |-> accessToken,
                 httpClient |-> TRUE],
          err |-> NoErr]

Validate(c) ==
    IF Len(c.Username) = 0 THEN ErrValidation
    ELSE IF Len(c.AccessToken) = 0 THEN ErrValidation
    ELSE NoErr

-----------------------------------------------------------------------------
(* Strings and URLs *)

HasPrefix(s, prefix) ==
    /\ Len(s) >= Len(prefix)
    /\ SubSeq(s, 1, Len(prefix)) = prefix

\* strings.Contains(s, substr)
Contains(s, substr) ==
    \E i \in 0..(Len(s) - Len(substr)) :
        SubSeq(s, i + 1, i + Len(substr)) = substr

\* if !strings.HasPrefix(tileset, c.username) { tileset = c.username + "." + tileset }
Qualify(t, username) ==
    IF ~HasPrefix(t, username) THEN username \o <<".">> \o t ELSE t

\* url.Parse inside http.NewRequest: a control character makes it fail
ValidURL(parts) == \A i \in 1..Len(parts) : \A j \in 1..Len(parts[i]) : parts[i][j] # CTL

Request(method, t, sub, jobId) ==
    [method |-> method, tileset |-> t, sub |-> sub, jobId |-> jobId]

-----------------------------------------------------------------------------
(* Answers of the service *)

NoField == "<absent>"
JsonStrings == {NoField, "", "j1", "j2"}
AlreadyExists == <<"already", "exists">>
Messages == {<<>>, <<"already", "exists">>, <<"tileset", "already", "exists">>,
             <<"exists", "already">>, <<"invalid">>}

\* err: ctxhttp.Do returned an error; valid: the body decodes into the struct
Response(err, status, valid, msg, jobId, job_id) ==
    [err |-> err, status |-> status, valid |-> valid, msg |-> msg,
     jobId |-> jobId, job_id |-> job_id]

TransportError == Response(TRUE, 0, FALSE, <<>>, NoField, NoField)

\* a *http.Response as doMultipart hands it on; isNil: the nil pointer
NilResp == [isNil |-> TRUE, status |-> 0]
Resp(status) == [isNil |-> FALSE, status |-> status]

\* 400 stands for every other status
Statuses == {StatusOK, StatusNoContent, 400, StatusNotFound}

RecipeResponses ==
    {TransportError} \cup
    {Response(FALSE, s, v, m, NoField, NoField) :
        s \in Statuses, v \in BOOLEAN, m \in Messages}

PublishResponses ==
    {TransportError} \cup
    {Response(FALSE, s, v, <<>>, a, b) :
        s \in Statuses, v \in BOOLEAN, a \in JsonStrings, b \in JsonStrings}

PollResponses ==
    {TransportError} \cup
    {Response(FALSE, s, v, <<>>, NoField, NoField) : s \in Statuses, v \in BOOLEAN}

\* encoding/json: a string field absent from the document keeps its zero value
DecodeString(v) == IF v = NoField THEN "" ELSE v

ZeroJob == [Message |-> <<>>, JobID |-> "", Tileset |-> <<>>, client |-> FALSE]

-----------------------------------------------------------------------------
(* Initial state: nothing constructed, nothing called *)

Init ==
    /\ mainPc = "start"
    /\ op = "none"
    /\ ncArgs = [accessToken |-> <<>>, username |-> <<>>]
    /\ client = ZeroClient
    /\ ncErr = NoErr
    /\ argTileset = <<>>
    /\ tileset = <<>>
    /\ reqs = <<>>
    /\ resps = <<>>
    /\ bodyRead = FALSE
    /\ result = NoErr
    /\ job = ZeroJob
    /\ data = <<>>
    /\ srcFail = FALSE
    /\ src = <<>>
    /\ wpc = "none"
    /\ partOk = FALSE
    /\ wrbuf = <<>>
    /\ rclosed = FALSE
    /\ wclosed = FALSE
    /\ writeErr = NoErr
    /\ errOnce = FALSE
    /\ recv = <<>>
    /\ httpPc = "none"
    /\ mpRet = [resp |-> NilResp, err |-> NoErr]
    /\ crashed = FALSE

-----------------------------------------------------------------------------
(* Client construction *)

CallNewClient ==
    /\ mainPc = "start"
    /\ \E accessToken \in Tokens, username \in Usernames :
        LET r == NewClient(accessToken, username) IN
        /\ ncArgs' = [accessToken |-> accessToken, username |-> username]
        /\ client' = r.c
        /\ ncErr' = r.err
        /\ mainPc' = IF r.err = NoErr THEN "ready" ELSE "failed"
    /\ UNCHANGED <<op, tilesetVars, uploadVars, crashed>>

CallValidate ==
    /\ mainPc = "start"
    /\ \E accessToken \in Tokens, username \in Usernames :
        /\ ncArgs' = [accessToken |-> accessToken, username |-> username]
        /\ ncErr' = Validate([Username |-> username, AccessToken |-> accessToken])
    /\ mainPc' = "validated"
    /\ UNCHANGED <<op, client, tilesetVars, uploadVars, crashed>>

-----------------------------------------------------------------------------
(* Tileset operations.  json.NewEncoder(&body).Encode(recipe) cannot fail  *)
(* for a TilesetRecipe (ints, strings and a map keyed by strings), so that *)
(* return is not a step of the model.                                      *)

\* return err, from any point of an operation
Finish(pc, err) ==
    /\ mainPc' = pc
    /\ result' = err
    /\ reqs' = reqs

\* http.NewRequest and ctxhttp.Do: the request goes out unless the URL is refused
Send(method, t, sub, jobId, waitPc, failPc) ==
    IF ValidURL(<<t, client.accessToken>>)
    THEN /\ reqs' = Append(reqs, Request(method, t, sub, jobId))
         /\ mainPc' = waitPc
         /\ result' = result
    ELSE Finish(failPc, ErrUnexpected)

\* UpdateTilesetRecipe(ctx, t, recipe) up to its ctxhttp.Do
UpdateStart(t) ==
    IF Len(t) = 0
    THEN /\ tileset' = t
         /\ Finish("done", ErrValidation)
    ELSE /\ tileset' = Qualify(t, client.username)
         /\ Send("PATCH", Qualify(t, client.username), "recipe", "", "updateWait", "done")

UpsertSucceededOn204(r) == r.status = StatusNoContent

\* if resp.StatusCode == http.StatusOK { return nil }
UpsertSucceeded(r) == r.status = StatusOK

UpdateSucceededOn200(r) == r.status = StatusOK

\* if resp.StatusCode == http.StatusNoContent { return nil }
UpdateSucceeded(r) == r.status = StatusNoContent

UpsertTileset ==
    /\ mainPc = "ready"
    /\ op' = "upsert"
    /\ \E t \in TilesetIds :
        /\ argTileset' = t
        /\ IF Len(t) = 0
           THEN /\ tileset' = t
                /\ Finish("done", ErrValidation)
           ELSE /\ tileset' = Qualify(t, client.username)
                /\ Send("POST", Qualify(t, client.username), "", "", "upsertWait", "done")
    /\ UNCHANGED <<clientVars, resps, bodyRead, job, uploadVars, crashed>>

UpsertResponse ==
    /\ mainPc = "upsertWait"
    /\ \E r \in RecipeResponses :
        /\ resps' = Append(resps, r)
        /\ IF r.err
           THEN /\ Finish("done", ErrOperation)
                /\ UNCHANGED <<bodyRead, tileset>>
           ELSE IF UpsertSucceeded(r)
           THEN /\ Finish("done", NoErr)
                /\ UNCHANGED <<bodyRead, tileset>>
           ELSE /\ bodyRead' = TRUE
                /\ IF ~r.valid
                   THEN Finish("done", ErrParse) /\ tileset' = tileset
                   ELSE IF Contains(r.msg, AlreadyExists)
                   THEN UpdateStart(tileset)
                   ELSE Finish("done", ServerError) /\ tileset' = tileset
    /\ UNCHANGED <<op, clientVars, argTileset, job, uploadVars, crashed>>

UpdateTilesetRecipe ==
    /\ mainPc = "ready"
    /\ op' = "update"
    /\ \E t \in TilesetIds :
        /\ argTileset' = t
        /\ UpdateStart(t)
    /\ UNCHANGED <<clientVars, resps, bodyRead, job, uploadVars, crashed>>

UpdateResponse ==
    /\ mainPc = "updateWait"
    /\ \E r \in RecipeResponses :
        /\ resps' = Append(resps, r)
        /\ IF r.err
           THEN Finish("done", ErrOperation) /\ bodyRead' = bodyRead
           ELSE IF UpdateSucceeded(r)
           THEN Finish("done", NoErr) /\ bodyRead' = bodyRead
           ELSE /\ bodyRead' = TRUE
                /\ IF ~r.valid
                   THEN Finish("done", ErrParse)
                   ELSE Finish("done", ServerError)
    /\ UNCHANGED <<op, clientVars, argTileset, tileset, job, uploadVars, crashed>>

-----------------------------------------------------------------------------
(* Publish and Poll *)

JobIDSnakeFirst(jsonResp) ==
    IF jsonResp.JobIDSnakeCased # "" THEN jsonResp.JobIDSnakeCased ELSE jsonResp.JobID

\* job.JobID = jsonResp.JobID, replaced by JobIDSnakeCased when it is empty
JobIDOf(jsonResp) ==
    IF jsonResp.JobID = "" /\ jsonResp.JobIDSnakeCased # ""
    THEN jsonResp.JobIDSnakeCased
    ELSE jsonResp.JobID

\* json.NewDecoder(resp.Body).Decode(&jsonResp) into PublishTilesetResponse;
\* the tag `json:"job_id,-"` names the key job_id (the option "-" is ignored)
DecodePublish(r) ==
    [Message |-> r.msg, JobID |-> DecodeString(r.jobId),
     JobIDSnakeCased |-> DecodeString(r.job_id)]

StatusErrorAsOperation(r) ==
    IF r.status = StatusNotFound THEN ErrOperation ELSE NoErr

\* if resp.StatusCode == http.StatusNotFound { return job, ... ErrNotFound }
StatusError(r) ==
    IF r.status = StatusNotFound THEN ErrNotFound ELSE NoErr

PublishTileset ==
    /\ mainPc = "ready"
    /\ op' = "publish"
    /\ \E t \in TilesetIds :
        /\ argTileset' = t
        /\ IF Len(t) = 0
           THEN /\ tileset' = t
                /\ Finish("published", ErrValidation)
           ELSE /\ tileset' = Qualify(t, client.username)
                /\ Send("PATCH", Qualify(t, client.username), "publish", "",
                        "publishWait", "published")
    /\ UNCHANGED <<clientVars, resps, bodyRead, job, uploadVars, crashed>>

PublishResponse ==
    /\ mainPc = "publishWait"
    /\ \E r \in PublishResponses :
        /\ resps' = Append(resps, r)
        /\ IF r.err
           THEN Finish("published", ErrOperation) /\ UNCHANGED <<bodyRead, job>>
           ELSE IF StatusError(r) # NoErr
           THEN Finish("published", StatusError(r)) /\ UNCHANGED <<bodyRead, job>>
           ELSE /\ bodyRead' = TRUE
                /\ IF ~r.valid
                   THEN Finish("published", ErrParse) /\ job' = job
                   ELSE /\ Finish("published", NoErr)
                        /\ job' = [Message |-> DecodePublish(r).Message,
                                   JobID |-> JobIDOf(DecodePublish(r)),
                                   Tileset |-> tileset,
                                   client |-> TRUE]
    /\ UNCHANGED <<op, clientVars, argTileset, tileset, uploadVars, crashed>>

\* j.client.accessToken on a job whose client is nil is a nil dereference;
\* the job ids the service hands out hold no control character
Poll ==
    /\ mainPc = "published"
    /\ op' = "poll"
    /\ IF ~job.client
       THEN /\ crashed' = TRUE
            /\ Finish("done", result)
       ELSE /\ crashed' = crashed
            /\ Send("GET", job.Tileset, "jobs", job.JobID, "pollWait", "done")
    /\ UNCHANGED <<clientVars, argTileset, tileset, resps, bodyRead, job, uploadVars>>

PollResponse ==
    /\ mainPc = "pollWait"
    /\ \E r \in PollResponses :
        /\ resps' = Append(resps, r)
        /\ IF r.err
           THEN Finish("done", ErrOperation) /\ bodyRead' = bodyRead
           ELSE /\ bodyRead' = TRUE
                /\ IF ~r.valid
                   THEN Finish("done", ErrParse)
                   ELSE Finish("done", NoErr)
    /\ UNCHANGED <<op, clientVars, argTileset, tileset, job, uploadVars, crashed>>

-----------------------------------------------------------------------------
(* Upload: PutTilesetSource -> putMultipart -> doMultipart.                *)
(*                                                                         *)
(* io.Pipe is synchronous: a Write hands its bytes to Reads and returns    *)
(* when all of them are taken, or with io.ErrClosedPipe once the read side *)
(* is closed.  The multipart.Writer writes straight into the pipe: one     *)
(* Write for the part header (CreateFormFile), one per io.Copy chunk, one  *)
(* for the closing boundary (Close).  The boundary is drawn at random per  *)
(* writer, so the framing tokens are values no input byte equals.          *)

Header == <<"--boundary", "part-header">>
Trailer == <<"--boundary--">>

Min(a, b) == IF a < b THEN a ELSE b

Last(s) == s[Len(s)]

PipeTake(buf, k) == SubSeq(buf, 1, k)

PipeRestDropped(buf, k) == <<>>

\* what a pipe Write still holds after a Read took k bytes of it
PipeRest(buf, k) == SubSeq(buf, k + 1, Len(buf))

IsPrefix(s, t) == Len(s) <= Len(t) /\ SubSeq(t, 1, Len(s)) = s

\* the request body the writer produces for an input
Body(d) == Header \o d \o Trailer

\* the server's multipart reader: the bytes between the part header and the
\* closing boundary; malformed when the framing is not there
FileField(b) ==
    IF /\ Len(b) >= Len(Header) + Len(Trailer)
       /\ SubSeq(b, 1, Len(Header)) = Header
       /\ SubSeq(b, Len(b) - Len(Trailer) + 1, Len(b)) = Trailer
    THEN SubSeq(b, Len(Header) + 1, Len(b) - Len(Trailer))
    ELSE <<"malformed">>

\* setErr: errOnce.Do(func() { writeErr = err }) when err != nil
SetErr(err) ==
    IF err # NoErr /\ ~errOnce
    THEN writeErr' = err /\ errOnce' = TRUE
    ELSE UNCHANGED <<writeErr, errOnce>>

\* the pipe Write in progress can return: all taken, or the read side closed
WriteReturns == wrbuf = <<>> \/ rclosed

WriteError == IF wrbuf = <<>> THEN NoErr ELSE ErrClosedPipe

\* if writeErr != nil { return nil, writeErr }; return resp, nil
DoMultipartResult(resp, werr) ==
    IF werr # NoErr
    THEN [resp |-> NilResp, err |-> werr]
    ELSE [resp |-> resp, err |-> NoErr]

UploadResponses ==
    {TransportError} \cup
    {Response(FALSE, s, v, <<>>, NoField, NoField) : s \in Statuses, v \in BOOLEAN}

PutTilesetSource ==
    /\ mainPc = "ready"
    /\ op' = "upload"
    /\ \E tilesetID \in UploadIds, d \in Inputs, f \in BOOLEAN :
        /\ argTileset' = tilesetID
        /\ data' = d
        /\ src' = d
        /\ srcFail' = f
        /\ wpc' = "create"
        /\ IF ValidURL(<<client.username, tilesetID, client.accessToken>>)
           THEN /\ reqs' = Append(reqs, Request("PUT", tilesetID, "sources", ""))
                /\ httpPc' = "sending"
                /\ mainPc' = "uploadDo"
                /\ mpRet' = mpRet
           ELSE /\ reqs' = reqs
                /\ httpPc' = httpPc
                /\ mainPc' = "uploadRet"
                /\ mpRet' = [resp |-> NilResp, err |-> ErrNewRequest]
    /\ UNCHANGED <<clientVars, tileset, resps, bodyRead, result, job, partOk,
                   wrbuf, rclosed, wclosed, writeErr, errOnce, recv, crashed>>

(* the background goroutine *)

WriterCreateFormFile ==
    /\ wpc = "create" /\ ~crashed
    /\ IF rclosed
       THEN /\ SetErr(ErrClosedPipe)
            /\ wpc' = "copy"
            /\ wrbuf' = wrbuf
       ELSE /\ wrbuf' = Header
            /\ wpc' = "createW"
            /\ UNCHANGED <<writeErr, errOnce>>
    /\ UNCHANGED <<mainPc, op, clientVars, tilesetVars, data, srcFail, src, partOk,
                   rclosed, wclosed, recv, httpPc, mpRet, crashed>>

WriterCreateFormFileReturns ==
    /\ wpc = "createW" /\ ~crashed
    /\ WriteReturns
    /\ partOk' = (WriteError = NoErr)
    /\ SetErr(WriteError)
    /\ wrbuf' = <<>>
    /\ wpc' = "copy"
    /\ UNCHANGED <<mainPc, op, clientVars, tilesetVars, data, srcFail, src,
                   rclosed, wclosed, recv, httpPc, mpRet, crashed>>

\* one turn of io.Copy: src.Read, then dst.Write of what was read
WriterCopyRead ==
    /\ wpc = "copy" /\ ~crashed
    /\ IF src # <<>>
       THEN \E n \in 1..Min(CopyBuf, Len(src)) :
            /\ src' = SubSeq(src, n + 1, Len(src))
            /\ IF ~partOk
               THEN /\ crashed' = TRUE
                    /\ wpc' = "panicked"
                    /\ UNCHANGED <<wrbuf, writeErr, errOnce>>
               ELSE IF rclosed
               THEN /\ SetErr(ErrClosedPipe)
                    /\ wpc' = "fclose"
                    /\ UNCHANGED <<wrbuf, crashed>>
               ELSE /\ wrbuf' = SubSeq(src, 1, n)
                    /\ wpc' = "copyW"
                    /\ UNCHANGED <<writeErr, errOnce, crashed>>
       ELSE /\ SetErr(IF srcFail THEN ErrRead ELSE NoErr)
            /\ wpc' = "fclose"
            /\ UNCHANGED <<src, wrbuf, crashed>>
    /\ UNCHANGED <<mainPc, op, clientVars, tilesetVars, data, srcFail, partOk,
                   rclosed, wclosed, recv, httpPc, mpRet>>

WriterCopyWriteReturns ==
    /\ wpc = "copyW" /\ ~crashed
    /\ WriteReturns
    /\ SetErr(WriteError)
    /\ wrbuf' = <<>>
    /\ wpc' = IF WriteError = NoErr THEN "copy" ELSE "fclose"
    /\ UNCHANGED <<mainPc, op, clientVars, tilesetVars, data, srcFail, src, partOk,
                   rclosed, wclosed, recv, httpPc, mpRet, crashed>>

WriterFormClose ==
    /\ wpc = "fclose" /\ ~crashed
    /\ IF rclosed
       THEN /\ SetErr(ErrClosedPipe)
            /\ wpc' = "bclose"
            /\ wrbuf' = wrbuf
       ELSE /\ wrbuf' = Trailer
            /\ wpc' = "fcloseW"
            /\ UNCHANGED <<writeErr, errOnce>>
    /\ UNCHANGED <<mainPc, op, clientVars, tilesetVars, data, srcFail, src, partOk,
                   rclosed, wclosed, recv, httpPc, mpRet, crashed>>

WriterFormCloseReturns ==
    /\ wpc = "fcloseW" /\ ~crashed
    /\ WriteReturns
    /\ SetErr(WriteError)
    /\ wrbuf' = <<>>
    /\ wpc' = "bclose"
    /\ UNCHANGED <<mainPc, op, clientVars, tilesetVars, data, srcFail, src, partOk,
                   rclosed, wclosed, recv, httpPc, mpRet, crashed>>

\* bodyWriter.Close() always returns nil
WriterBodyClose ==
    /\ wpc = "bclose" /\ ~crashed
    /\ wclosed' = TRUE
    /\ SetErr(NoErr)
    /\ wpc' = "done"
    /\ UNCHANGED <<mainPc, op, clientVars, tilesetVars, data, srcFail, src, partOk,
                   wrbuf, rclosed, recv, httpPc, mpRet, crashed>>

(* ctxhttp.Do: the transport and the server *)

HttpRead ==
    /\ httpPc = "sending" /\ ~crashed
    /\ ~rclosed
    /\ wrbuf # <<>>
    /\ \E k \in 1..Min(ReadBuf, Len(wrbuf)) :
        /\ recv' = recv \o PipeTake(wrbuf, k)
        /\ wrbuf' = PipeRest(wrbuf, k)
    /\ UNCHANGED <<mainPc, op, clientVars, tilesetVars, data, srcFail, src, wpc,
                   partOk, rclosed, wclosed, writeErr, errOnce, httpPc, mpRet, crashed>>

HttpReadEOF ==
    /\ httpPc = "sending" /\ ~crashed
    /\ ~rclosed
    /\ wclosed
    /\ httpPc' = "bodyEOF"
    /\ UNCHANGED <<mainPc, op, clientVars, tilesetVars, uploadVarsButHttpPc, crashed>>

\* the round trip ends: an answer (possibly before the body was read to its
\* end) or a failure (connection error, context cancelled or past its deadline)
HttpDoReturns ==
    /\ httpPc \in {"sending", "bodyEOF"} /\ ~crashed
    /\ \E r \in UploadResponses :
        /\ resps' = Append(resps, r)
        /\ httpPc' = IF r.err THEN "failed" ELSE "responded"
    /\ UNCHANGED <<mainPc, op, clientVars, argTileset, tileset, reqs, bodyRead,
                   result, job, uploadVarsButHttpPc, crashed>>

\* RoundTripper: the transport always closes the request body, possibly in a
\* separate goroutine after RoundTrip has returned
HttpCloseBody ==
    /\ httpPc \in {"bodyEOF", "responded", "failed"} /\ ~crashed
    /\ ~rclosed
    /\ rclosed' = TRUE
    /\ UNCHANGED <<mainPc, op, clientVars, tilesetVars, data, srcFail, src, wpc,
                   partOk, wrbuf, wclosed, writeErr, errOnce, recv, httpPc, mpRet,
                   crashed>>

(* the calling goroutine *)

\* writeErr is read with no synchronisation with the goroutine: the value
\* read is whatever the goroutine has stored by then
DoMultipartReturns ==
    /\ mainPc = "uploadDo" /\ ~crashed
    /\ httpPc \in {"responded", "failed"}
    /\ mpRet' = DoMultipartResult(
                    IF Last(resps).err THEN NilResp ELSE Resp(Last(resps).status),
                    writeErr)
    /\ mainPc' = "uploadRet"
    /\ UNCHANGED <<op, clientVars, tilesetVars, data, srcFail, src, wpc, partOk,
                   wrbuf, rclosed, wclosed, writeErr, errOnce, recv, httpPc, crashed>>

\* PutTilesetSource after putMultipart returned; resp.StatusCode on a nil
\* response is a nil dereference
PutTilesetSourceReturns ==
    /\ mainPc = "uploadRet" /\ ~crashed
    /\ IF mpRet.err # NoErr
       THEN /\ result' = ErrOperation
            /\ mainPc' = "done"
            /\ UNCHANGED <<bodyRead, crashed>>
       ELSE IF mpRet.resp.isNil
       THEN /\ crashed' = TRUE
            /\ mainPc' = "panicked"
            /\ UNCHANGED <<bodyRead, result>>
       ELSE IF mpRet.resp.status # StatusOK
       THEN /\ result' = ErrOperation
            /\ mainPc' = "done"
            /\ UNCHANGED <<bodyRead, crashed>>
       ELSE /\ bodyRead' = TRUE
            /\ result' = IF Last(resps).valid THEN NoErr ELSE ErrParse
            /\ mainPc' = "done"
            /\ crashed' = crashed
    /\ UNCHANGED <<op, clientVars, argTileset, tileset, reqs, resps, job, uploadVars>>

Next ==
    \/ CallNewClient
    \/ CallValidate
    \/ UpsertTileset
    \/ UpsertResponse
    \/ UpdateTilesetRecipe
    \/ UpdateResponse
    \/ PublishTileset
    \/ PublishResponse
    \/ Poll
    \/ PollResponse
    \/ PutTilesetSource
    \/ WriterCreateFormFile
    \/ WriterCreateFormFileReturns
    \/ WriterCopyRead
    \/ WriterCopyWriteReturns
    \/ WriterFormClose
    \/ WriterFormCloseReturns
    \/ WriterBodyClose
    \/ HttpRead
    \/ HttpReadEOF
    \/ HttpDoReturns
    \/ HttpCloseBody
    \/ DoMultipartReturns
    \/ PutTilesetSourceReturns

Spec == Init /\ [][Next]_vars

\* every goroutine that can take a step eventually takes one; the transport
\* eventually ends the round trip and closes the body
FairSpec == Spec /\ WF_vars(Next)

-----------------------------------------------------------------------------
(* Properties *)

Returned == mainPc \in {"uploadRet", "done", "panicked"}

\* C1: whatever the interleaving of writer and request reader, the bytes the
\* HTTP side has read are a prefix of header + input + closing boundary, and
\* once it has read the body to its end (the reader having yielded no error)
\* the file field it parses out is exactly the input.
C1_UploadRoundTrip ==
    /\ IsPrefix(recv, Body(data))
    /\ (httpPc = "bodyEOF" /\ ~srcFail) => FileField(recv) = data

\* an input longer than one hand-off has been read to its end
C1_Witness ==
    /\ httpPc = "bodyEOF"
    /\ ~srcFail
    /\ Len(data) > CopyBuf
    /\ Len(data) > ReadBuf
    /\ FileField(recv) = data

\* C2: once doMultipart has returned from a sent request, an error met by the
\* background writer is what it returned, with a nil response.
C2_WriterErrorSupersedesResponse ==
    (Returned /\ httpPc # "none" /\ writeErr # NoErr)
        => mpRet = [resp |-> NilResp, err |-> writeErr]

\* C3: doMultipart never returns a nil response with a nil error, and after a
\* transport failure PutTilesetSource returns an operation error.
C3_TransportFailureIsReported ==
    /\ (op = "upload" /\ Returned) => ~(mpRet.resp.isNil /\ mpRet.err = NoErr)
    /\ (httpPc = "failed" /\ mainPc \in {"done", "panicked"})
            => (mainPc = "done" /\ result = ErrOperation)

C4_Conflict ==
    /\ op = "upsert"
    /\ Len(resps) >= 1
    /\ ~resps[1].err
    /\ resps[1].status # StatusOK
    /\ resps[1].valid
    /\ Contains(resps[1].msg, AlreadyExists)

\* C4: when the POST of UpsertTileset is answered non-200 with a message that
\* contains "already exists", exactly one POST and then exactly one PATCH of
\* the same tileset's recipe are issued, nothing else, and the operation
\* returns nil iff the PATCH is answered 204.
C4_ConflictFallsBackToOnePatch ==
    C4_Conflict =>
        /\ mainPc \in {"updateWait", "done"}
        /\ Len(reqs) = 2
        /\ reqs[1] = Request("POST", Qualify(argTileset, client.username), "", "")
        /\ reqs[2] = Request("PATCH", reqs[1].tileset, "recipe", "")
        /\ mainPc = "done" =>
            /\ Len(resps) = 2
            /\ (result = NoErr) <=> (~resps[2].err /\ resps[2].status = StatusNoContent)

C4_Witness ==
    /\ C4_Conflict
    /\ mainPc = "done"
    /\ Len(reqs) = 2
    /\ resps[2].status = StatusNoContent
    /\ result = NoErr

\* C5: when the POST of UpsertTileset is answered 200 the operation has
\* returned nil with that single request issued and no body decoded.
C5_UpsertOKNeedsNoFollowUp ==
    (op = "upsert" /\ Len(resps) >= 1 /\ ~resps[1].err /\ resps[1].status = StatusOK)
        => /\ mainPc = "done"
           /\ result = NoErr
           /\ Len(reqs) = 1
           /\ reqs[1].method = "POST"
           /\ Len(resps) = 1
           /\ ~bodyRead

C5_Witness ==
    /\ op = "upsert"
    /\ Len(resps) = 1
    /\ ~resps[1].err
    /\ resps[1].status = StatusOK
    /\ result = NoErr
    /\ mainPc = "done"

\* username + "." + name
IsQualified(t, username) == HasPrefix(t, username \o <<".">>)

\* C6: the tileset segment of every tileset request has the form
\* username + "." + name: the caller's id unchanged when it has that form,
\* username + "." + id otherwise.
C6_TilesetAlwaysQualified ==
    \A i \in 1..Len(reqs) :
        reqs[i].method # "PUT" =>
            /\ IsQualified(reqs[i].tileset, client.username)
            /\ reqs[i].tileset =
                IF IsQualified(argTileset, client.username)
                THEN argTileset
                ELSE client.username \o <<".">> \o argTileset

C7_Decoded ==
    /\ op = "publish"
    /\ Len(resps) = 1
    /\ ~resps[1].err
    /\ resps[1].status # StatusNotFound
    /\ resps[1].valid

\* C7: a non-404 publish answer that decodes yields a nil error and a job
\* whose JobID is jobId when non-empty, else job_id when non-empty, else "".
C7_JobIDPrecedence ==
    C7_Decoded =>
        /\ mainPc = "published"
        /\ result = NoErr
        /\ job.client
        /\ job.Tileset = tileset
        /\ job.JobID =
            IF resps[1].jobId \notin {NoField, ""} THEN resps[1].jobId
            ELSE IF resps[1].job_id \notin {NoField, ""} THEN resps[1].job_id
            ELSE ""

\* only the alternate field is present
C7_Witness ==
    /\ C7_Decoded
    /\ resps[1].jobId = NoField
    /\ resps[1].job_id = "j1"
    /\ job.JobID = "j1"
    /\ result = NoErr

\* C8: a publish answered 404 returns the not-found error, which is none of
\* the other error kinds, with no body decoded and the zero job.
C8_PublishNotFound ==
    (op = "publish" /\ Len(resps) = 1 /\ ~resps[1].err
            /\ resps[1].status = StatusNotFound)
        => /\ mainPc = "published"
           /\ result = ErrNotFound
           /\ result \notin {NoErr, ErrValidation, ErrOperation, ErrParse,
                             ErrUnexpected, ServerError}
           /\ ~bodyRead
           /\ job = ZeroJob

C8_Witness ==
    /\ op = "publish"
    /\ Len(resps) = 1
    /\ resps[1].status = StatusNotFound
    /\ result = ErrNotFound
    /\ job.JobID = ""
    /\ ~job.client

C9_Empty == ncArgs.username = <<>> \/ ncArgs.accessToken = <<>>

\* C9: NewClient fails with a validation error when username or access token
\* is empty and otherwise returns a client holding exactly the two; Validate
\* decides the same way; neither issues a request.
C9_NewClientValidates ==
    /\ mainPc \notin {"start", "validated"} =>
        IF C9_Empty
        THEN mainPc = "failed" /\ ncErr = ErrValidation
        ELSE /\ ncErr = NoErr
             /\ client.username = ncArgs.username
             /\ client.accessToken = ncArgs.accessToken
    /\ mainPc = "validated" => (ncErr = IF C9_Empty THEN ErrValidation ELSE NoErr)
    /\ mainPc \in {"ready", "failed", "validated"} => reqs = <<>>

C9_Witness ==
    /\ mainPc = "failed"
    /\ ncArgs.username # <<>>
    /\ ncArgs.accessToken = <<>>
    /\ ncErr = ErrValidation
    /\ reqs = <<>>

\* C10: every background writer doMultipart starts eventually terminates.
C10_WriterEventuallyTerminates ==
    (wpc # "none") ~> (wpc = "done" \/ crashed)
====
